---- MODULE Spec2Model ----
(***************************************************************************)
(* Model of the Paperfetcher web app (src/paperfetcher_app.py).            *)
(*                                                                         *)
(* The app is a Streamlit script: every user event (a radio selection, a   *)
(* button press) runs the script once from top to bottom.  One action of   *)
(* this model is one such script run: the handler of the pressed button    *)
(* followed by the "Display results" section that ends the script, unless  *)
(* an uncaught exception stopped the run before it.                        *)
(*                                                                         *)
(* The paperfetcher library (handsearch, snowballsearch) is not part of    *)
(* the repository.  Its network calls (dry_run, search()) are inputs of    *)
(* the handlers: each either raises SearchError or returns a value.  The   *)
(* dataset getters (get_DOIDataset, get_RISDataset) convert what a search  *)
(* object already holds and are modelled as total.                         *)
(***************************************************************************)
EXTENDS Integers, Sequences, FiniteSets, TLC

\* ---------------------------------------------------------------- bounds
MaxSelected == 2   \* entries in cr_hs_selected_journals_list
MaxEst      == 1   \* largest count one dry_run returns
MaxRecs     == 2   \* number of records of a search that fetches any
MaxLimit    == 1   \* largest configured paperfetcher_searchlimit
MaxSeeds    == 2   \* DOIs in one citation search
MaxSearches == 2   \* presses of a Search button in one session
MaxDay      == 2   \* days the date inputs offer, counted from the first

\* ------------------------------------------------------- python values
\* Python's None, for the values that are None or an object.
None == [kind |-> "None"]

IsNone(x) == x.kind = "None"

\* A Python int, where the value may also be None.
PyInt(n) == [kind |-> "int", val |-> n]

Range(s) == {s[i] : i \in 1..Len(s)}

RECURSIVE SumSeq(_)
SumSeq(s) == IF s = <<>> THEN 0 ELSE Head(s) + SumSeq(Tail(s))

RECURSIVE Concat(_)
\* The concatenation of a sequence of sequences.
Concat(ss) == IF ss = <<>> THEN <<>> ELSE Head(ss) \o Concat(Tail(ss))

\* ------------------------------------------------------------- strings
\* A string is a sequence of tokens; "," and " " are the characters the
\* code splits on and strips, every other token stands for a run of other
\* characters.
RECURSIVE LStrip(_)
LStrip(s) == IF s # <<>> /\ Head(s) = " " THEN LStrip(Tail(s)) ELSE s

RECURSIVE RStrip(_)
RStrip(s) ==
    IF s # <<>> /\ s[Len(s)] = " " THEN RStrip(SubSeq(s, 1, Len(s) - 1)) ELSE s

\* str.strip()
Strip(s) == RStrip(LStrip(s))

RECURSIVE SplitFrom(_, _)
\* str.split(","): cur is the piece being read, s what is left to read.
SplitFrom(cur, s) ==
    IF s = <<>> THEN <<cur>>
    ELSE IF Head(s) = "," THEN <<cur>> \o SplitFrom(<<>>, Tail(s))
    ELSE SplitFrom(Append(cur, Head(s)), Tail(s))

Split(s) == SplitFrom(<<>>, s)

\* The rows (JournalTitle, eissn) of the Crossref title list; the second
\* title holds a comma.
JournalDF ==
    { [JournalTitle |-> <<"Ta">>, eissn |-> <<"E1">>],
      [JournalTitle |-> <<"Tb", ",", " ", "Tc">>, eissn |-> <<"E2">>] }

\* JournalTitle + ", ISSN:" + eissn
Merged(row) == row.JournalTitle \o <<",", " ", "ISSN:">> \o row.eissn

\* The options of the journal select box: "" and one entry per row.
journal_list == {<<>>} \cup {Merged(row) : row \in JournalDF}

\* What the user types into the ISSN text box.
TypedISSNs == {<<>>, <<" ">>, <<"E3">>}

\* ------------------------------------------------------------ messages
\* One st.error / st.info / st.success element of the page, or the
\* traceback Streamlit shows for an uncaught exception.  issn, size and
\* limit are the values formatted into the text (<<>>, 0 and None when the
\* text has none).
Msg(level, id, issn, size, limit) ==
    [level |-> level, id |-> id, issn |-> issn, size |-> size, limit |-> limit]

\* The report is a text; the model keeps the values formatted into it.
\* type "" is the empty text "" the session starts with.
EmptyReport == [type |-> "", units |-> <<>>, count |-> 0]

\* -------------------------------------------------- paperfetcher objects
\* What the network answers to one call: SearchError (err) or n results,
\* none or max of them.
Outcomes(max) ==
    {[err |-> TRUE, n |-> 0]} \cup {[err |-> FALSE, n |-> k] : k \in {0, max}}

\* The works a search fetched for one identifier, in the order the index
\* returns them, with the selected fields DOI and abstract.
Works(id, n) == [j \in 1..n |-> [DOI |-> <<id, j>>, abstract |-> "abstract"]]

\* A handsearch.CrossrefSearch object after search(select=True, ...).
CrossrefSearch(ISSN, n) == [ISSN |-> ISSN, results |-> Works(ISSN, n)]

\* search.get_DOIDataset(): the DOIs of the works.
get_DOIDataset(search_obj) ==
    [kind  |-> "DOIDataset",
     items |-> [j \in 1..Len(search_obj.results) |-> search_obj.results[j].DOI]]

\* search.get_RISDataset(extra_field_list=...): one RIS entry per work; the
\* abstract goes into the entry when the caller asks for it.
get_RISDataset(search_obj, extra_field_list) ==
    [kind  |-> "RISDataset",
     items |-> [j \in 1..Len(search_obj.results) |->
                  [doi            |-> search_obj.results[j].DOI,
                   notes_abstract |->
                       IF "abstract" \in Range(extra_field_list)
                       THEN search_obj.results[j].abstract ELSE ""]]]

\* extend_dataset, were it to put the other dataset first.
extend_dataset_Prepend(results, other) ==
    [results EXCEPT !.items = other.items \o results.items]

\* results.extend_dataset(other)
extend_dataset(results, other) ==
    [results EXCEPT !.items = results.items \o other.items]

RECURSIVE PrepareDOIFrom(_, _)
PrepareDOIFrom(results, search_objs) ==
    IF search_objs = <<>> THEN results
    ELSE PrepareDOIFrom(
             IF IsNone(results) THEN get_DOIDataset(Head(search_objs))
             ELSE extend_dataset(results, get_DOIDataset(Head(search_objs))),
             Tail(search_objs))

\* The preparation, were it to start from an empty dataset.
prepare_handsearch_doi_dataset_Empty(search_objs) ==
    PrepareDOIFrom([kind |-> "DOIDataset", items |-> <<>>], search_objs)

prepare_handsearch_doi_dataset(search_objs) == PrepareDOIFrom(None, search_objs)

RECURSIVE PrepareRISFrom(_, _)
PrepareRISFrom(results, search_objs) ==
    IF search_objs = <<>> THEN results
    ELSE PrepareRISFrom(
             IF IsNone(results) THEN get_RISDataset(Head(search_objs), <<"abstract">>)
             ELSE extend_dataset(results, get_RISDataset(Head(search_objs), <<"abstract">>)),
             Tail(search_objs))

prepare_handsearch_ris_dataset(search_objs) == PrepareRISFrom(None, search_objs)

\* The number of Records of a stored result; None holds none.
RecordCount(results) == IF IsNone(results) THEN 0 ELSE Len(results.items)

\* The DOIs of the Records of a stored result, in order.
RecordDOIs(results) ==
    IF IsNone(results) THEN <<>>
    ELSE IF results.kind = "DOIDataset" THEN results.items
    ELSE [j \in 1..Len(results.items) |-> results.items[j].doi]

\* ------------------------------------------------------------- state
VARIABLES
    result_limit,    \* paperfetcher_searchlimit: None or an int
    search,          \* the search type radio
    out_format,      \* the output format radio of the form shown
    session_state,   \* st.session_state
    page,            \* what the last script run put on the page, and the
                     \* network calls it made
    run,             \* the inputs of the last script run
    searches         \* the number of presses of a Search button so far

vars == <<result_limit, search, out_format, session_state, page, run, searches>>

SearchTypes == {"Handsearch", "Citation search"}
Formats == {"doi-txt", "ris"}

\* What the Display results section shows: the report, the download, and
\* the spinner of a conversion ("" without one).  NoShown is the page of a
\* script run that does not reach the section or finds no complete search.
NoShown == [visible |-> FALSE, report |-> EmptyReport, download |-> None,
            spinner |-> ""]

NoRun == [handler |-> "none", units |-> <<>>, est |-> <<>>, fet |-> <<>>]

Init ==
    /\ result_limit \in {None} \cup {PyInt(n) : n \in 0..MaxLimit}
    /\ search = "Handsearch"
    /\ out_format = "doi-txt"
    /\ session_state = [search_type     |-> "None",   \* None
                        search_complete |-> FALSE,
                        search_objs     |-> <<>>,
                        results         |-> None,
                        report          |-> EmptyReport,
                        cr_hs_selected_journals_list |-> <<>>]
    /\ page = [msgs |-> <<>>, calls |-> <<>>, progress |-> <<>>,
               crashed |-> FALSE, shown |-> NoShown]
    /\ run = NoRun
    /\ searches = 0

\* ------------------------------------------------------ Display results
\* results.to_txt_string() is a method of a DOI dataset and
\* results.to_ris_string() one of a RIS dataset; the call raises on the
\* other kind, which is how the code finds that it must convert.
DatasetKind(fmt) == IF fmt = "doi-txt" THEN "DOIDataset" ELSE "RISDataset"

Export(results) ==
    [kind |-> IF results.kind = "DOIDataset" THEN "txt" ELSE "ris",
     data |-> results.items]

\* The conversion, were it to rebuild every stored search as a handsearch.
Convert_AsHandsearch(ss, fmt) ==
    [raised  |-> FALSE,
     results |-> IF fmt = "doi-txt"
                 THEN prepare_handsearch_doi_dataset(ss.search_objs)
                 ELSE prepare_handsearch_ris_dataset(ss.search_objs)]

\* The conversion of the except branches: the stored results rebuilt from
\* the stored search objects according to the stored search type.  raised
\* is the IndexError of search_objs[0] on an empty list.
Convert(ss, fmt) ==
    IF ss.search_type = "Handsearch"
    THEN [raised  |-> FALSE,
          results |-> IF fmt = "doi-txt"
                      THEN prepare_handsearch_doi_dataset(ss.search_objs)
                      ELSE prepare_handsearch_ris_dataset(ss.search_objs)]
    ELSE IF ss.search_type = "Citation search"
    THEN IF ss.search_objs = <<>>
         THEN [raised |-> TRUE, results |-> ss.results]
         ELSE [raised  |-> FALSE,
               results |-> IF fmt = "doi-txt"
                           THEN get_DOIDataset(ss.search_objs[1])
                           ELSE get_RISDataset(ss.search_objs[1], <<>>)]
    ELSE [raised |-> FALSE, results |-> ss.results]

\* The section that ends the script.  It returns the session state it
\* leaves, what it shows, and whether it stopped on an uncaught exception
\* (the second to_*_string call on None or on a dataset of the other kind).
DisplayResults(ss, fmt) ==
    IF ~ss.search_complete
    THEN [session_state |-> ss, shown |-> NoShown, crashed |-> FALSE]
    ELSE IF IsNone(ss.results)
    THEN [session_state |-> ss,
          shown         |-> [visible |-> TRUE, report |-> ss.report,
                             download |-> None, spinner |-> ""],
          crashed       |-> FALSE]
    ELSE IF ss.results.kind = DatasetKind(fmt)
    THEN [session_state |-> ss,
          shown         |-> [visible |-> TRUE, report |-> ss.report,
                             download |-> Export(ss.results), spinner |-> ""],
          crashed       |-> FALSE]
    ELSE LET c   == Convert(ss, fmt)
             ss2 == [ss EXCEPT !.results = c.results]
             ok  == /\ ~c.raised
                    /\ ~IsNone(c.results)
                    /\ c.results.kind = DatasetKind(fmt)
         IN [session_state |-> ss2,
             shown         |-> [visible |-> TRUE, report |-> ss.report,
                                download |-> IF ok THEN Export(c.results)
                                             ELSE None,
                                spinner  |-> IF fmt = "doi-txt"
                                             THEN "Converting to DOIs"
                                             ELSE "Converting to RIS"],
             crashed       |-> ~ok]

\* ------------------------------------------------------------ Handsearch
\* issn_val.split(",")[1].strip() for an entry that holds a comma.
ParseISSN(issn_val) ==
    IF "," \in Range(issn_val) THEN Strip(Split(issn_val)[2]) ELSE issn_val

Call(op, id) == [op |-> op, id |-> id]

\* The estimate loop, were it to estimate the first entry only.
EstimateLoop_FirstOnly(issn_list, est) ==
    LET n == IF Len(issn_list) = 0 THEN 0 ELSE 1
    IN [calls |-> [i \in 1..n |-> [op |-> "dry_run",
                                   id |-> ParseISSN(issn_list[i])]],
        msgs  |-> IF n > 0 /\ est[n].err
                  THEN <<Msg("error", "evaluation_failed",
                             ParseISSN(issn_list[n]), 0, None)>>
                  ELSE <<>>,
        expected_size |-> SumSeq([i \in 1..n |->
                                    IF est[i].err THEN 0 ELSE est[i].n])]

\* The estimate loop: one dry_run per entry; a SearchError is reported and
\* adds nothing to expected_size.
EstimateLoop(issn_list, est) ==
    LET n == Len(issn_list)
    IN [calls |-> [i \in 1..n |-> Call("dry_run", ParseISSN(issn_list[i]))],
        msgs  |-> Concat([i \in 1..n |->
                     IF est[i].err
                     THEN <<Msg("error", "evaluation_failed",
                                ParseISSN(issn_list[i]), 0, None)>>
                     ELSE <<>>]),
        expected_size |-> SumSeq([i \in 1..n |->
                                    IF est[i].err THEN 0 ELSE est[i].n])]

\* The check of the selection left out.
NoJournals_Never(issn_list) == FALSE

\* len(issn_list) == 0
NoJournals(issn_list) == Len(issn_list) = 0

\* The limit check with >= for >.
ExceedsLimit_AtLimit(expected_size, limit) ==
    ~IsNone(limit) /\ expected_size >= limit.val

\* The limit check with an absent limit read as 0.
ExceedsLimit_NoneIsZero(expected_size, limit) ==
    expected_size > (IF IsNone(limit) THEN 0 ELSE limit.val)

\* The limit check left out.
ExceedsLimit_Never(expected_size, limit) == FALSE

\* result_limit is not None and expected_size > result_limit
ExceedsLimit(expected_size, limit) ==
    ~IsNone(limit) /\ expected_size > limit.val

\* The zero check with < 0 for < 1.
NothingToFetch_Never(expected_size) == expected_size < 0

\* expected_size < 1
NothingToFetch(expected_size) == expected_size < 1

RECURSIVE UpToError(_)
\* The answers up to and with the first SearchError.
UpToError(outs) ==
    IF outs = <<>> THEN <<>>
    ELSE IF Head(outs).err THEN <<Head(outs)>>
    ELSE <<Head(outs)>> \o UpToError(Tail(outs))

\* The fetch loop, were a SearchError to end it.
FetchLoop_AbortsOnError(issn_list, fet) ==
    LET n == Len(UpToError(fet))
    IN [calls |-> [i \in 1..n |-> [op |-> "search",
                                   id |-> ParseISSN(issn_list[i])]],
        msgs  |-> IF n > 0 /\ fet[n].err
                  THEN <<Msg("error", "search_failed",
                             ParseISSN(issn_list[n]), 0, None)>>
                  ELSE <<>>,
        search_objs |-> Concat([i \in 1..n |->
                     IF fet[i].err THEN <<>>
                     ELSE <<CrossrefSearch(ParseISSN(issn_list[i]), fet[i].n)>>]),
        progress |-> [i \in 1..n |-> [num |-> i, den |-> Len(issn_list)]]]

\* The fetch loop, were the progress bar to move inside the try block:
\* after the entries whose search succeeded only.
FetchLoop_ProgressOnSuccess(issn_list, fet) ==
    LET n == Len(issn_list)
    IN [calls |-> [i \in 1..n |-> [op |-> "search",
                                   id |-> ParseISSN(issn_list[i])]],
        msgs  |-> Concat([i \in 1..n |->
                     IF fet[i].err
                     THEN <<Msg("error", "search_failed",
                                ParseISSN(issn_list[i]), 0, None)>>
                     ELSE <<>>]),
        search_objs |-> Concat([i \in 1..n |->
                     IF fet[i].err THEN <<>>
                     ELSE <<CrossrefSearch(ParseISSN(issn_list[i]), fet[i].n)>>]),
        progress |-> Concat([i \in 1..n |->
                     IF fet[i].err THEN <<>>
                     ELSE <<[num |-> i, den |-> n]>>])]

\* The fetch loop: one search per entry; a SearchError is reported and the
\* loop goes on; the progress bar moves after every entry.
FetchLoop(issn_list, fet) ==
    LET n == Len(issn_list)
    IN [calls |-> [i \in 1..n |-> Call("search", ParseISSN(issn_list[i]))],
        msgs  |-> Concat([i \in 1..n |->
                     IF fet[i].err
                     THEN <<Msg("error", "search_failed",
                                ParseISSN(issn_list[i]), 0, None)>>
                     ELSE <<>>]),
        search_objs |-> Concat([i \in 1..n |->
                     IF fet[i].err THEN <<>>
                     ELSE <<CrossrefSearch(ParseISSN(issn_list[i]), fet[i].n)>>]),
        progress |-> [i \in 1..n |-> [num |-> i, den |-> n]]]

\* The state update and the report, were the report to count the search
\* objects.
StoreHandsearch_CountsObjects(ss, issn_list, search_objs, results) ==
    LET stored == [ss EXCEPT !.search_type = "Handsearch",
                             !.search_complete = TRUE,
                             !.search_objs = search_objs,
                             !.results = results]
    IN IF IsNone(results) THEN stored
       ELSE [stored EXCEPT !.report = [type  |-> "Handsearch",
                                       units |-> issn_list,
                                       count |-> Len(search_objs)]]

\* The state the handler stores once the fetch loop has ended, and the
\* report it writes after it: len(results) raises TypeError on None, which
\* stops the script before the report is stored.
StoreHandsearch(ss, issn_list, search_objs, results) ==
    LET stored == [ss EXCEPT !.search_type = "Handsearch",
                             !.search_complete = TRUE,
                             !.search_objs = search_objs,
                             !.results = results]
    IN IF IsNone(results) THEN stored
       ELSE [stored EXCEPT !.report = [type  |-> "Handsearch",
                                       units |-> issn_list,
                                       count |-> Len(results.items)]]

\* Whether a run with these estimates reaches the fetch loop.
Fetches(issn_list, limit, est) ==
    /\ ~NoJournals(issn_list)
    /\ ~ExceedsLimit(EstimateLoop(issn_list, est).expected_size, limit)
    /\ ~NothingToFetch(EstimateLoop(issn_list, est).expected_size)

\* What a handler hands to the end of the script: the session state it
\* leaves, its messages, network calls and progress values, whether an
\* uncaught exception stopped it, and whether it began to fetch.
Handled(ss, msgs, calls, progress, crashed, fetched) ==
    [session_state |-> ss, msgs |-> msgs, calls |-> calls,
     progress |-> progress, crashed |-> crashed, fetched |-> fetched]

\* The branches that end the handler before the fetch, were the state
\* update of the end of the handler to run in them too.
PreFetchExit_Stores(ss, msgs, calls) ==
    Handled([ss EXCEPT !.search_type = "Handsearch",
                       !.search_complete = TRUE,
                       !.search_objs = <<>>,
                       !.results = None],
            msgs, calls, <<>>, FALSE, FALSE)

\* The branches that end the handler before the fetch, were they to clear
\* what an earlier search stored.
PreFetchExit_Resets(ss, msgs, calls) ==
    Handled([ss EXCEPT !.search_complete = FALSE,
                       !.search_objs = <<>>,
                       !.results = None,
                       !.report = EmptyReport],
            msgs, calls, <<>>, FALSE, FALSE)

\* The branches that end the handler before the fetch: an error message,
\* and nothing stored.
PreFetchExit(ss, msgs, calls) == Handled(ss, msgs, calls, <<>>, FALSE, FALSE)

\* The handler of the Search button of the handsearch form, up to the
\* Display results section.
HandsearchSearch(ss, issn_list, fmt, limit, est, fet) ==
    LET e == EstimateLoop(issn_list, est)
        f == FetchLoop(issn_list, fet)
        results == IF fmt = "doi-txt"
                   THEN prepare_handsearch_doi_dataset(f.search_objs)
                   ELSE prepare_handsearch_ris_dataset(f.search_objs)
    IN IF NoJournals(issn_list)
       THEN PreFetchExit(ss, <<Msg("error", "no_journals", <<>>, 0, None)>>,
                         <<>>)
       ELSE IF ExceedsLimit(e.expected_size, limit)
       THEN PreFetchExit(ss,
                         Append(e.msgs, Msg("error", "limit_exceeded", <<>>,
                                            e.expected_size, limit)),
                         e.calls)
       ELSE IF NothingToFetch(e.expected_size)
       THEN PreFetchExit(ss,
                         Append(e.msgs, Msg("error", "no_results", <<>>, 0, None)),
                         e.calls)
       ELSE Handled(StoreHandsearch(ss, issn_list, f.search_objs, results),
                    e.msgs
                      \o <<Msg("info", "will_return", <<>>,
                               e.expected_size, None)>>
                      \o f.msgs
                      \o <<Msg("success", "search_complete", <<>>, 0, None)>>
                      \o IF IsNone(results)
                         THEN <<Msg("exception", "TypeError", <<>>, 0, None)>>
                         ELSE <<>>,
                    e.calls \o f.calls,
                    <<[num |-> 0, den |-> 1]>> \o f.progress,
                    IsNone(results), TRUE)

\* ------------------------------------------------------- Citation search
\* [doi.strip() for doi in dois.split(",")], or [dois] without a comma.
ParseDOIs(dois) ==
    IF "," \in Range(dois)
    THEN [i \in 1..Len(Split(dois)) |-> Strip(Split(dois)[i])]
    ELSE <<dois>>

\* A snowballsearch object after search(): the works found for the seeds,
\* seed after seed.
SnowballSearch(dois, fet) ==
    [ISSN    |-> <<>>,
     results |-> Concat([i \in 1..Len(fet) |-> Works(dois[i], fet[i].n)])]

\* The one search() call of the handler takes all the seeds.  A lookup
\* that fails reaches the handler the only way the handler can see it: as
\* the SearchError of that call, which ends the call.
Raises(fet) == \E i \in 1..Len(fet) : fet[i].err

\* What the network answers to the lookups of one search() call on n
\* seeds: an answer per seed, or the answers up to a first SearchError.
LookupAnswers(n) ==
    UNION {{fet \in [1..k -> Outcomes(MaxRecs)] :
               /\ \A i \in 1..(k - 1) : ~fet[i].err
               /\ k < n => fet[k].err} : k \in 1..n}

SnowballTypes == {"backward", "forward"}

StoreCitation(ss, snowball_type, dois, search_objs, results) ==
    LET stored == [ss EXCEPT !.search_type = "Citation search",
                             !.search_complete = TRUE,
                             !.search_objs = search_objs,
                             !.results = results]
    IN IF IsNone(results) THEN stored
       ELSE [stored EXCEPT !.report = [type  |-> snowball_type,
                                       units |-> dois,
                                       count |-> Len(results.items)]]

\* The handler of the Search button of the citation search form, up to the
\* Display results section.  search_objs[0] raises IndexError on the empty
\* list, which the handler reports as a failed dataset preparation.
CitationSearch(ss, dois_text, snowball_type, fmt, fet) ==
    LET dois == ParseDOIs(dois_text)
        search_objs == IF Raises(fet) THEN <<>>
                       ELSE <<SnowballSearch(dois, fet)>>
        results == IF search_objs = <<>> THEN None
                   ELSE IF fmt = "doi-txt" THEN get_DOIDataset(search_objs[1])
                   ELSE get_RISDataset(search_objs[1], <<>>)
    IN Handled(StoreCitation(ss, snowball_type, dois, search_objs, results),
               (IF Raises(fet)
                THEN <<Msg("error", "search_failed", <<>>, 0, None),
                       Msg("error", "preparation_failed", <<>>, 0, None)>>
                ELSE <<>>)
                 \o <<Msg("success", "search_complete", <<>>, 0, None)>>
                 \o IF IsNone(results)
                    THEN <<Msg("exception", "TypeError", <<>>, 0, None)>>
                    ELSE <<>>,
               <<Call(snowball_type, dois_text)>>,
               <<>>, IsNone(results), TRUE)

\* --------------------------------------------------------------- inputs
RECURSIVE Pick(_, _, _)
\* The entries of s at the positions of I from position i on, in order.
Pick(s, I, i) ==
    IF i > Len(s) THEN <<>>
    ELSE (IF i \in I THEN <<s[i]>> ELSE <<>>) \o Pick(s, I, i + 1)

\* What the multiselect can return: the selected journals, some removed.
Selections(options) == {Pick(options, I, 1) : I \in SUBSET (1..Len(options))}

SeedNames == <<"D1", "D2", "D3", "D4">>

RECURSIVE Join(_)
\* ", ".join(list)
Join(list) ==
    IF list = <<>> THEN <<>>
    ELSE IF Len(list) = 1 THEN Head(list)
    ELSE Head(list) \o <<",", " ">> \o Join(Tail(list))

\* What the two date inputs offer: every day from the first one to today.
Days == 1..MaxDay

\* The dates of a search, (start, end).  Each input is free of the other:
\* the ranges in order and the reversed ones.
DateRanges == {d \in Days \X Days : d[1] # d[2]}

\* What the user types into the DOI text area: up to MaxSeeds DOIs
\* separated by commas.
DOITexts == {Join([i \in 1..k |-> <<SeedNames[i]>>]) : k \in 1..MaxSeeds}

\* -------------------------------------------------------------- actions
\* The end of every script run: the Display results section, unless the
\* handler stopped the script.
ScriptEnd(h, fmt) ==
    IF h.crashed
    THEN [session_state |-> h.session_state, shown |-> NoShown,
          crashed |-> TRUE]
    ELSE DisplayResults(h.session_state, fmt)

EndScript(h, fmt, r) ==
    LET d == ScriptEnd(h, fmt)
    IN /\ session_state' = d.session_state
       /\ page' = [msgs     |-> IF d.crashed /\ ~h.crashed
                                THEN Append(h.msgs, Msg("exception",
                                         "AttributeError", <<>>, 0, None))
                                ELSE h.msgs,
                   calls    |-> h.calls,
                   progress |-> h.progress,
                   crashed  |-> d.crashed,
                   shown    |-> d.shown]
       /\ run' = r

\* A script run whose buttons do nothing to the session state.
Rerun(ss, msgs) == Handled(ss, msgs, <<>>, <<>>, FALSE, FALSE)

\* The user picks a search type.  Each form has its own output format
\* radio (same label and keys, other option texts): the radio of the form
\* now shown holds what the one before held, or starts at its first option.
SelectSearch ==
    \E s \in SearchTypes, f \in {out_format, "doi-txt"} :
       /\ s # search
       /\ search' = s
       /\ out_format' = f
       /\ UNCHANGED <<result_limit, searches>>
       /\ EndScript(Rerun(session_state, <<>>), f, NoRun)

\* The user picks an output format.
SelectFormat ==
    \E f \in Formats :
       /\ f # out_format
       /\ out_format' = f
       /\ UNCHANGED <<result_limit, search, searches>>
       /\ EndScript(Rerun(session_state, <<>>), f, NoRun)

\* "Add to search" below the journal select box.
AddJournal ==
    /\ search = "Handsearch"
    /\ \E option \in journal_list :
          LET blank == Strip(option) = <<>>
              list  == session_state.cr_hs_selected_journals_list
          IN /\ blank \/ Len(list) < MaxSelected
             /\ EndScript(
                  IF blank
                  THEN Rerun(session_state,
                         <<Msg("error", "no_journal_selected", <<>>, 0, None)>>)
                  ELSE Rerun([session_state EXCEPT
                                !.cr_hs_selected_journals_list =
                                    Append(list, option)], <<>>),
                  out_format, NoRun)
    /\ UNCHANGED <<result_limit, search, out_format, searches>>

\* "Add to search" below the ISSN text box.
AddISSN ==
    /\ search = "Handsearch"
    /\ \E issn \in TypedISSNs :
          LET blank == Strip(issn) = <<>>
              list  == session_state.cr_hs_selected_journals_list
          IN /\ blank \/ Len(list) < MaxSelected
             /\ EndScript(
                  IF blank
                  THEN Rerun(session_state,
                         <<Msg("error", "no_issn_entered", <<>>, 0, None)>>)
                  ELSE Rerun([session_state EXCEPT
                                !.cr_hs_selected_journals_list =
                                    Append(list, issn)], <<>>),
                  out_format, NoRun)
    /\ UNCHANGED <<result_limit, search, out_format, searches>>

\* "Search" of the handsearch form.  The selection, the two dates, and what
\* the network answers to every dry_run and to every search of a run that
\* fetches, are the inputs.  The dates go into every CrossrefSearch object
\* as they are; the handler reads them nowhere else but in the report.
SearchHandsearch ==
    /\ search = "Handsearch"
    /\ searches < MaxSearches
    /\ \E issn_list \in Selections(session_state.cr_hs_selected_journals_list) :
       \E dates \in DateRanges :
       \E est \in [1..(IF Len(issn_list) = 0 THEN 0 ELSE Len(issn_list))
                      -> Outcomes(MaxEst)] :
       \E fet \in [1..(IF Fetches(issn_list, result_limit, est)
                       THEN Len(issn_list) ELSE 0) -> Outcomes(MaxRecs)] :
          EndScript(HandsearchSearch(session_state, issn_list, out_format,
                                     result_limit, est, fet),
                    out_format,
                    [handler |-> "Handsearch", units |-> issn_list,
                     est |-> est, fet |-> fet,
                     fromd |-> dates[1], untild |-> dates[2]])
    /\ searches' = searches + 1
    /\ UNCHANGED <<result_limit, search, out_format>>

\* "Search" of the citation search form.
SearchCitation ==
    /\ search = "Citation search"
    /\ searches < MaxSearches
    /\ \E dois \in DOITexts, snowball_type \in SnowballTypes :
       \E fet \in LookupAnswers(Len(ParseDOIs(dois))) :
          EndScript(CitationSearch(session_state, dois, snowball_type,
                                   out_format, fet),
                    out_format,
                    [handler |-> "Citation search", units |-> ParseDOIs(dois),
                     est |-> <<>>, fet |-> fet])
    /\ searches' = searches + 1
    /\ UNCHANGED <<result_limit, search, out_format>>

Next ==
    \/ SelectSearch
    \/ SelectFormat
    \/ AddJournal
    \/ AddISSN
    \/ SearchHandsearch
    \/ SearchCitation

Spec == Init /\ [][Next]_vars

\* ------------------------------------------------------- two sessions
\* Streamlit runs the script once per event of every browser session, all
\* in one server process.  st.session_state is the state of the session
\* whose event runs the script; the module-level names of the script
\* (result_limit among them) are set anew from the process environment by
\* every run.  In the specification Sessions the variables search,
\* out_format and session_state hold one value per session, result_limit
\* is the one value of the process, run names the last script run and its
\* session, searches counts the searches of each session, and page is not
\* used.
MaxSessions == 2

MaxSessionSelected == 1   \* entries a session of Sessions adds

MaxSessionSearches == 1   \* presses of a Search button in such a session

SessionIds == 1..MaxSessions

\* st.session_state, were it one object of the process that every session
\* reads and writes.
Put_Global(all, s, ss) == [t \in DOMAIN all |-> ss]

\* What a script run of session s leaves in st.session_state: the state of
\* that session.
Put(all, s, ss) == [all EXCEPT ![s] = ss]

SessionsInit ==
    /\ result_limit \in {None} \cup {PyInt(n) : n \in 0..MaxLimit}
    /\ search = [s \in SessionIds |-> "Handsearch"]
    /\ out_format = [s \in SessionIds |-> "doi-txt"]
    /\ session_state =
          [s \in SessionIds |->
              [search_type     |-> "None",
               search_complete |-> FALSE,
               search_objs     |-> <<>>,
               results         |-> None,
               report          |-> EmptyReport,
               cr_hs_selected_journals_list |-> <<>>]]
    /\ page = [msgs |-> <<>>, calls |-> <<>>, progress |-> <<>>,
               crashed |-> FALSE, shown |-> NoShown]
    /\ run = [session |-> 0, handler |-> "none"]
    /\ searches = [s \in SessionIds |-> 0]

\* One script run of session s: what the widgets hold after the event, and
\* the handler of the event.
SessionScript(s, newsearch, newformat, h, handler) ==
    /\ search' = [search EXCEPT ![s] = newsearch]
    /\ out_format' = [out_format EXCEPT ![s] = newformat]
    /\ session_state' =
          Put(session_state, s, ScriptEnd(h, newformat).session_state)
    /\ run' = [session |-> s, handler |-> handler]
    /\ searches' = [searches EXCEPT ![s] =
                       IF handler = "none" THEN @ ELSE @ + 1]
    /\ UNCHANGED <<result_limit, page>>

SessionSelectSearch(s) ==
    \E t \in SearchTypes \ {search[s]}, f \in {out_format[s], "doi-txt"} :
       SessionScript(s, t, f, Rerun(session_state[s], <<>>), "none")

SessionSelectFormat(s) ==
    \E f \in Formats \ {out_format[s]} :
       SessionScript(s, search[s], f, Rerun(session_state[s], <<>>), "none")

SessionAddISSN(s) ==
    /\ search[s] = "Handsearch"
    /\ \E issn \in TypedISSNs :
          LET list == session_state[s].cr_hs_selected_journals_list
          IN /\ Strip(issn) # <<>>
             /\ Len(list) < MaxSessionSelected
             /\ SessionScript(s, search[s], out_format[s],
                   Rerun([session_state[s] EXCEPT
                            !.cr_hs_selected_journals_list =
                                Append(list, issn)], <<>>),
                   "none")

SessionSearchHandsearch(s) ==
    /\ search[s] = "Handsearch"
    /\ searches[s] < MaxSessionSearches
    /\ \E issn_list \in
            Selections(session_state[s].cr_hs_selected_journals_list) :
       \E est \in [1..Len(issn_list) -> Outcomes(MaxEst)] :
       \E fet \in [1..(IF Fetches(issn_list, result_limit, est)
                       THEN Len(issn_list) ELSE 0) -> Outcomes(MaxRecs)] :
          SessionScript(s, search[s], out_format[s],
                        HandsearchSearch(session_state[s], issn_list,
                                         out_format[s], result_limit, est, fet),
                        "Handsearch")

SessionSearchCitation(s) ==
    /\ search[s] = "Citation search"
    /\ searches[s] < MaxSessionSearches
    /\ \E dois \in DOITexts, snowball_type \in SnowballTypes :
       \E fet \in LookupAnswers(Len(ParseDOIs(dois))) :
          SessionScript(s, search[s], out_format[s],
                        CitationSearch(session_state[s], dois, snowball_type,
                                       out_format[s], fet),
                        "Citation search")

SessionsNext ==
    \E s \in SessionIds :
       \/ SessionSelectSearch(s)
       \/ SessionSelectFormat(s)
       \/ SessionAddISSN(s)
       \/ SessionSearchHandsearch(s)
       \/ SessionSearchCitation(s)

Sessions == SessionsInit /\ [][SessionsNext]_vars

\* =====================================================================
\* Properties
\* =====================================================================
\* What the last script run was, read from its inputs.
Handsearched == run.handler = "Handsearch"

Chased == run.handler = "Citation search"

\* The sum of the estimates the network returned in the last run.
SummedEstimate ==
    SumSeq([i \in 1..Len(run.est) |->
              IF run.est[i].err THEN 0 ELSE run.est[i].n])

CallsOf(op) == SelectSeq(page.calls, LAMBDA c : c.op = op)

HasMsg(id) == \E i \in 1..Len(page.msgs) : page.msgs[i].id = id

LimitSet == ~IsNone(result_limit)

\* The units of the last run whose fetch failed.
FailedUnits == {i \in 1..Len(run.fet) : run.fet[i].err}

\* The DOIs the network returned for the units whose fetch succeeded, unit
\* after unit.
FetchedDOIs(ids) ==
    Concat([i \in 1..Len(run.fet) |->
              IF run.fet[i].err THEN <<>>
              ELSE [j \in 1..run.fet[i].n |-> <<ids[i], j>>]])

\* The messages that end a handsearch run.
TerminalIds == {"no_journals", "limit_exceeded", "no_results", "search_complete"}

\* C1: in a handsearch with a configured ceiling, a summed estimate above
\* the ceiling ends the run with the ceiling message and without any fetch
\* request; a summed estimate equal to the ceiling, and at least 1, goes on
\* to fetch every selected container.
C1_CeilingStrict ==
    (Handsearched /\ run.units # <<>> /\ LimitSet) =>
        /\ SummedEstimate > result_limit.val =>
              /\ HasMsg("limit_exceeded")
              /\ CallsOf("search") = <<>>
              /\ ~HasMsg("search_complete")
        /\ (SummedEstimate = result_limit.val /\ SummedEstimate >= 1) =>
              /\ ~HasMsg("limit_exceeded")
              /\ HasMsg("will_return")
              /\ Len(CallsOf("search")) = Len(run.units)

\* A run whose summed estimate equals the ceiling and that fetched.
C1_Witness ==
    /\ Handsearched /\ LimitSet
    /\ SummedEstimate = result_limit.val /\ SummedEstimate >= 1
    /\ CallsOf("search") # <<>>

\* C2: a handsearch run issues every estimate request before any fetch
\* request, fetches only after the estimate of every selected container
\* was attempted and the ceiling check passed, and ends with exactly one
\* of the terminal messages.
C2_RunOrder ==
    Handsearched =>
        /\ \A i, j \in 1..Len(page.calls) :
              (page.calls[i].op = "search" /\ page.calls[j].op = "dry_run")
                  => j < i
        /\ CallsOf("search") # <<>> =>
              /\ Len(CallsOf("dry_run")) = Len(run.units)
              /\ ~(LimitSet /\ SummedEstimate > result_limit.val)
              /\ SummedEstimate >= 1
              /\ HasMsg("search_complete")
        /\ Cardinality({i \in 1..Len(page.msgs) :
                           page.msgs[i].id \in TerminalIds}) = 1

\* A run that estimated two containers, passed a configured ceiling and
\* fetched.
C2_Witness ==
    /\ Handsearched /\ LimitSet
    /\ Len(CallsOf("dry_run")) = 2
    /\ Len(CallsOf("search")) = 2
    /\ HasMsg("search_complete")

\* C3: once a handsearch fetches, it issues one fetch request per selected
\* container, in the order of the selection, whichever of them fail, and
\* the stored result holds exactly the Records of the containers whose
\* fetch succeeded (no Records, when none did).
C3_FetchIsolation ==
    (Handsearched /\ run.fet # <<>>) =>
        /\ CallsOf("search") =
              [i \in 1..Len(run.units) |->
                  [op |-> "search", id |-> ParseISSN(run.units[i])]]
        /\ RecordDOIs(session_state.results) =
              FetchedDOIs([i \in 1..Len(run.units) |-> ParseISSN(run.units[i])])

\* A run whose first container failed and whose second one gave Records
\* that the stored result holds.
C3_Witness ==
    /\ Handsearched /\ Len(run.fet) = 2
    /\ run.fet[1].err /\ ~run.fet[2].err /\ run.fet[2].n > 0
    /\ RecordCount(session_state.results) = run.fet[2].n

\* C4 (as claimed): after every run of a handsearch or a citation search
\* the page states the outcome: a rejection before the fetch (the ceiling
\* message with the estimate and the ceiling, or the message of an empty
\* selection or of an estimate of zero), or the report of this run with
\* the count of the stored Dataset, with one error message per failed
\* unit.
C4_FinalReport ==
    (Handsearched \/ Chased) =>
        \/ /\ HasMsg("limit_exceeded")
           /\ \A i \in 1..Len(page.msgs) :
                 page.msgs[i].id = "limit_exceeded" =>
                    /\ page.msgs[i].size = SummedEstimate
                    /\ page.msgs[i].limit = result_limit
        \/ HasMsg("no_journals")
        \/ HasMsg("no_results")
        \/ /\ HasMsg("search_complete")
           /\ page.shown.visible
           /\ page.shown.report.units = run.units
           /\ page.shown.report.count = RecordCount(session_state.results)
           /\ FailedUnits # {} => HasMsg("search_failed")

\* C5 (as claimed): the per-unit errors of a run with a failed unit are
\* kept for reporting after the run has ended: the script run that follows
\* it still shows an error for the failed units.
C5_ErrorsRetained ==
    [][(FailedUnits # {} /\ run'.handler = "none")
          => \E i \in 1..Len(page'.msgs) : page'.msgs[i].id = "search_failed"]_vars

\* C6: a handsearch whose summed estimate is zero issues no fetch request
\* and shows the "no results" message, and neither the ceiling message nor
\* the message of a completed search.
C6_ZeroEstimate ==
    (Handsearched /\ run.units # <<>> /\ SummedEstimate = 0) =>
        /\ CallsOf("search") = <<>>
        /\ HasMsg("no_results")
        /\ ~HasMsg("limit_exceeded")
        /\ ~HasMsg("search_complete")
        /\ ~HasMsg("will_return")

\* A zero estimate under a ceiling of 0.
C6_Witness ==
    /\ Handsearched /\ run.units # <<>> /\ SummedEstimate = 0
    /\ result_limit = PyInt(0)
    /\ HasMsg("no_results")

\* C7 (as claimed): after a handsearch whose summed estimate is zero the
\* session is marked complete and its stored result is a Dataset with zero
\* Records.
C7_EmptyDatasetStored ==
    (Handsearched /\ run.units # <<>> /\ SummedEstimate = 0) =>
        /\ session_state.search_complete
        /\ ~IsNone(session_state.results)
        /\ RecordCount(session_state.results) = 0

\* C7 (amended): a handsearch whose summed estimate is zero shows the "no
\* results" error and stores nothing: the completion flag, the stored
\* result and the stored search objects are those of before the run.
C7_ZeroLeavesSession ==
    [][(run'.handler = "Handsearch" /\ run'.units # <<>>
        /\ SumSeq([i \in 1..Len(run'.est) |->
                     IF run'.est[i].err THEN 0 ELSE run'.est[i].n]) = 0)
          => /\ \E i \in 1..Len(page'.msgs) :
                   /\ page'.msgs[i].id = "no_results"
                   /\ page'.msgs[i].level = "error"
             /\ session_state'.search_complete = session_state.search_complete
             /\ session_state'.results = session_state.results
             /\ session_state'.search_objs = session_state.search_objs]_vars

\* A zero estimate in a session that holds the Records of an earlier run.
C7_Witness ==
    /\ Handsearched /\ run.units # <<>> /\ SummedEstimate = 0
    /\ HasMsg("no_results")
    /\ session_state.search_complete
    /\ RecordCount(session_state.results) > 0

\* C8: without a configured ceiling no handsearch ends with the ceiling
\* message, whatever the summed estimate; every run with an estimate of at
\* least 1 fetches.
C8_Unbounded ==
    (Handsearched /\ ~LimitSet) =>
        /\ ~HasMsg("limit_exceeded")
        /\ SummedEstimate >= 1 => Len(CallsOf("search")) = Len(run.units)

\* A run without a ceiling whose summed estimate is above every ceiling of
\* the model, and that fetched.
C8_Witness ==
    /\ Handsearched /\ ~LimitSet
    /\ SummedEstimate > MaxLimit
    /\ CallsOf("search") # <<>>

\* C9: a handsearch whose summed estimate exceeds the ceiling issues no
\* fetch request and stores nothing: the session state is the one of
\* before the run, and a download the page offers is the stored result of
\* an earlier run, unchanged.
C9_RejectionStoresNothing ==
    [][(run'.handler = "Handsearch" /\ ~IsNone(result_limit)
        /\ SumSeq([i \in 1..Len(run'.est) |->
                     IF run'.est[i].err THEN 0 ELSE run'.est[i].n])
              > result_limit.val)
          => /\ SelectSeq(page'.calls, LAMBDA c : c.op = "search") = <<>>
             /\ session_state' = session_state
             /\ \/ IsNone(page'.shown.download)
                \/ /\ ~IsNone(session_state.results)
                   /\ page'.shown.download = Export(session_state.results)]_vars

\* A rejected run in a session that holds, and offers, the Records of an
\* earlier run.
C9_Witness ==
    /\ Handsearched /\ HasMsg("limit_exceeded")
    /\ CallsOf("search") = <<>>
    /\ ~IsNone(session_state.results)
    /\ ~IsNone(page.shown.download)

\* C10 (as claimed): a citation search in which the lookup of one seed
\* fails and the lookup of another seed gives Records reports the failure
\* and still ends with a Dataset that holds the Records of the seeds that
\* succeeded.
C10_SeedsIndependent ==
    (Chased /\ FailedUnits # {}
     /\ \E i \in 1..Len(run.fet) : ~run.fet[i].err /\ run.fet[i].n > 0) =>
        /\ HasMsg("search_failed")
        /\ ~IsNone(session_state.results)
        /\ RecordDOIs(session_state.results) = FetchedDOIs(run.units)

\* C11: the stored result of a handsearch is the concatenation of the
\* Records of the stored search objects, object after object and in the
\* order each object holds them, none dropped and none merged, so that its
\* Record count is the sum of the counts of the objects; and the objects
\* of a run that fetched are those of the containers whose fetch
\* succeeded, in the order of the selection.
C11_MergeOrder ==
    (session_state.search_type = "Handsearch"
     /\ ~IsNone(session_state.results)) =>
        LET objs == session_state.search_objs
        IN /\ RecordDOIs(session_state.results) =
                 Concat([i \in 1..Len(objs) |->
                           [j \in 1..Len(objs[i].results) |->
                               objs[i].results[j].DOI]])
           /\ RecordCount(session_state.results) =
                 SumSeq([i \in 1..Len(objs) |-> Len(objs[i].results)])
           /\ (Handsearched /\ run.fet # <<>>) =>
                 [i \in 1..Len(objs) |-> objs[i].ISSN] =
                     Concat([i \in 1..Len(run.units) |->
                               IF run.fet[i].err THEN <<>>
                               ELSE <<ParseISSN(run.units[i])>>])

\* A handsearch of two containers with two Records each, and a stored
\* result of four Records.
C11_Witness ==
    /\ Handsearched /\ Len(run.fet) = 2
    /\ Len(session_state.search_objs) = 2
    /\ \A i \in 1..2 : Len(session_state.search_objs[i].results) = 2
    /\ RecordCount(session_state.results) = 4

\* C12: a handsearch that fetches sets the progress bar to 0 and then
\* moves it once after every selected container, failed or not: the i-th
\* move shows i / number of containers, each value is above the one before
\* it, and the last one is 1.  A run that does not fetch shows no progress.
C12_Progress ==
    Handsearched =>
        LET p == page.progress
            n == Len(run.units)
        IN IF run.fet = <<>> THEN p = <<>>
           ELSE /\ Len(p) = n + 1
                /\ p[1].num = 0
                /\ \A i \in 1..n : p[i + 1] = [num |-> i, den |-> n]
                /\ \A i \in 1..n :
                      p[i].num * p[i + 1].den < p[i + 1].num * p[i].den
                /\ p[Len(p)].num = p[Len(p)].den

\* A run of two containers whose first fetch failed, with a progress
\* value after each of them.
C12_Witness ==
    /\ Handsearched /\ Len(run.fet) = 2
    /\ run.fet[1].err /\ ~run.fet[2].err
    /\ Len(page.progress) = Len(run.units) + 1
    /\ page.progress[Len(page.progress)] = [num |-> 2, den |-> 2]

\* C13 (as claimed): a handsearch whose date range is reversed (from after
\* until) is stopped before any network call: it issues no estimate
\* request and no fetch request.
C13_InvalidDatesCaught ==
    (Handsearched /\ run.units # <<>> /\ run.fromd > run.untild) =>
        /\ CallsOf("dry_run") = <<>>
        /\ CallsOf("search") = <<>>

\* C14: a handsearch started with an empty selection shows the error that
\* journals must be added first, and issues no estimate request and no
\* fetch request.
C14_EmptySelection ==
    (Handsearched /\ run.units = <<>>) =>
        /\ \E i \in 1..Len(page.msgs) :
              /\ page.msgs[i].id = "no_journals"
              /\ page.msgs[i].level = "error"
        /\ page.calls = <<>>
        /\ page.progress = <<>>
        /\ ~HasMsg("search_complete")

\* A handsearch with every added journal removed from the selection.
C14_Witness ==
    /\ Handsearched /\ run.units = <<>>
    /\ session_state.cr_hs_selected_journals_list # <<>>
    /\ HasMsg("no_journals")

\* C15: a run that stores a report writes into it the Record count of the
\* Dataset the same run stored as the session's result; the report shown
\* is that report.  In every state with a stored Dataset, the count of the
\* stored report is the Record count of the Dataset.
C15_ReportCount ==
    /\ ((Handsearched \/ Chased) /\ HasMsg("search_complete")
         /\ ~HasMsg("TypeError")) =>
           /\ ~IsNone(session_state.results)
           /\ session_state.report.units = run.units
           /\ session_state.report.count = RecordCount(session_state.results)
           /\ page.shown.report = session_state.report
    /\ ~IsNone(session_state.results) =>
           session_state.report.count = RecordCount(session_state.results)

\* A handsearch of two containers, one failed, whose report counts the
\* Records of the other.
C15_Witness ==
    /\ Handsearched /\ Len(run.units) = 2 /\ FailedUnits # {}
    /\ session_state.report.units = run.units
    /\ session_state.report.count = MaxRecs
    /\ RecordCount(session_state.results) = MaxRecs

\* What a session stores of a search.
StoredSearch(ss) ==
    [search_type     |-> ss.search_type,
     search_complete |-> ss.search_complete,
     search_objs     |-> ss.search_objs,
     results         |-> ss.results,
     report          |-> ss.report]

\* C16: under every interleaving of the script runs of two sessions, a
\* script run of one session leaves the stored search type, completion
\* flag, search objects, results and report of the other session as they
\* were, and no script run changes the ceiling.
C16_Isolation ==
    [][/\ result_limit' = result_limit
       /\ \A s \in SessionIds :
             s # run'.session =>
                StoredSearch(session_state'[s]) = StoredSearch(session_state[s])]_vars

\* A search of one session, run while the other session holds the Records
\* of its own search.
C16_Witness ==
    /\ run.session \in SessionIds /\ run.handler = "Citation search"
    /\ session_state[run.session].search_type = "Citation search"
    /\ \E s \in SessionIds \ {run.session} :
          /\ session_state[s].search_type = "Handsearch"
          /\ RecordCount(session_state[s].results) > 0
    /\ ~IsNone(result_limit)

\* C17 (as claimed): in a handsearch run every container for which a
\* fetch request is issued has an estimate in the sum that was compared
\* with the ceiling: its estimate request did not fail.
C17_SumCoversFetched ==
    Handsearched =>
        \A i \in 1..Len(run.units) :
           (\E k \in 1..Len(page.calls) :
               page.calls[k] = Call("search", ParseISSN(run.units[i])))
              => ~run.est[i].err

\* C18 (as claimed): in a session marked complete, a stored report of a
\* run is the report of the run that stored the search type, the search
\* objects and the results: it names that search type and counts the
\* Records of the stored results.
C18_ReportOfSameRun ==
    (session_state.search_complete /\ session_state.report # EmptyReport) =>
        /\ session_state.report.type = "Handsearch"
              <=> session_state.search_type = "Handsearch"
        /\ session_state.report.type \in SnowballTypes
              <=> session_state.search_type = "Citation search"
        /\ session_state.report.count = RecordCount(session_state.results)

\* C19: a handsearch run that ends before the fetch (empty selection,
\* ceiling exceeded, or an estimate of zero) leaves the stored search
\* type, completion flag, search objects, results and report of the
\* session as they were before the run.
C19_PreFetchFrame ==
    [][(run'.handler = "Handsearch" /\ run'.fet = <<>>)
          => /\ \E i \in 1..Len(page'.msgs) :
                   page'.msgs[i].id \in
                       {"no_journals", "limit_exceeded", "no_results"}
             /\ StoredSearch(session_state') = StoredSearch(session_state)]_vars

\* A handsearch with an empty selection in a session that holds the
\* Records and the report of an earlier citation search.
C19_Witness ==
    /\ Handsearched /\ run.fet = <<>> /\ HasMsg("no_journals")
    /\ session_state.search_complete
    /\ session_state.search_type = "Citation search"
    /\ RecordCount(session_state.results) > 0
    /\ session_state.report.type \in SnowballTypes

\* C20: in every state, stored results that are not None come with a list
\* of stored search objects that is not empty; the conversion of the
\* Display results section, to either format, does not raise on
\* search_objs[0], and no script run ends in the exception of a failed
\* conversion.
C20_ObjectsBehindResults ==
    ~IsNone(session_state.results) =>
        /\ session_state.search_objs # <<>>
        /\ session_state.search_complete
        /\ \A f \in Formats :
              /\ ~Convert(session_state, f).raised
              /\ ~DisplayResults(session_state, f).crashed
        /\ ~HasMsg("AttributeError")

\* The Records of a citation search, shown after a script run that pressed
\* no button, in the RIS format.
C20_Witness ==
    /\ run = NoRun /\ page.shown.visible
    /\ session_state.search_type = "Citation search"
    /\ out_format = "ris"
    /\ ~IsNone(session_state.results)
    /\ session_state.results.kind = "RISDataset"
    /\ RecordCount(session_state.results) > 0
    /\ ~IsNone(page.shown.download)

\* C21: after every script run that leaves stored results that are not
\* None, the results are a Dataset of the output format now selected and
\* the download is its export; a RIS Dataset holds abstracts exactly when
\* the stored search type is Handsearch, whatever form is shown; and a run
\* without a search keeps the Records, their order and count, the search
\* objects, the search type and the report.
C21_DisplayConverts ==
    [][~IsNone(session_state'.results) =>
          /\ session_state'.results.kind = DatasetKind(out_format')
          /\ page'.shown.download = Export(session_state'.results)
          /\ session_state'.results.kind = "RISDataset" =>
                \A j \in 1..Len(session_state'.results.items) :
                   session_state'.results.items[j].notes_abstract =
                      IF session_state'.search_type = "Handsearch"
                      THEN "abstract" ELSE ""
          /\ run'.handler = "none" =>
                /\ RecordDOIs(session_state'.results) =
                      RecordDOIs(session_state.results)
                /\ RecordCount(session_state'.results) =
                      RecordCount(session_state.results)
                /\ session_state'.search_objs = session_state.search_objs
                /\ session_state'.search_type = session_state.search_type
                /\ session_state'.report = session_state.report]_vars

\* The Records of a citation search converted to RIS while the handsearch
\* form is shown.
C21_Witness ==
    /\ run = NoRun /\ page.shown.spinner = "Converting to RIS"
    /\ search = "Handsearch"
    /\ session_state.search_type = "Citation search"
    /\ ~IsNone(session_state.results)
    /\ session_state.results.kind = "RISDataset"
    /\ RecordCount(session_state.results) > 0

\* The identifier the claim gives an entry of the selection: the eISSN of
\* the journal for an entry of the journal list, the text itself for a
\* typed ISSN.
ContainerId(entry) ==
    IF \E row \in JournalDF : entry = Merged(row)
    THEN (CHOOSE row \in JournalDF : entry = Merged(row)).eissn
    ELSE entry

\* C22 (as claimed): for every selected entry of a handsearch run the
\* estimate request and the fetch request carry the same container
\* identifier: the eISSN of the journal for an entry of the journal list,
\* whatever its title, and the typed text for a typed ISSN.
C22_ContainerIdentifier ==
    Handsearched =>
        /\ \A i \in 1..Len(CallsOf("dry_run")) :
              CallsOf("dry_run")[i].id = ContainerId(run.units[i])
        /\ \A i \in 1..Len(CallsOf("search")) :
              /\ CallsOf("search")[i].id = ContainerId(run.units[i])
              /\ CallsOf("search")[i].id = CallsOf("dry_run")[i].id

====
